---- MODULE Spec2Model ----
(***************************************************************************)
(* pyxfer: serializers between SQLAlchemy entities and dicts.              *)
(*                                                                         *)
(* The model follows src/pyxfer/type_support.py (the code generators of    *)
(* the type supports) and, for the entity-side cache that pyxfer inherits  *)
(* from its base class, src/montgomery/type_support.py.  The statements    *)
(* that the generators emit are modelled as the operations they perform    *)
(* when the generated serializer runs.  The serializer skeleton and the    *)
(* walker live in pyxfer/pyxfer.py, which src/ does not hold: they are     *)
(* modelled from spec.md (4.2, 4.3).  session.merge is SQLAlchemy's: it is *)
(* modelled by its documented contract (the instance of the session with   *)
(* the same primary key receives the state and is returned, otherwise a    *)
(* new instance does; merging cascades along the relations), for a session *)
(* that does not flush by itself.                                          *)
(*                                                                         *)
(* The schema is the one of src/test.py: Order -parts-> OrderPart,         *)
(* OrderPart -operation-> Operation, OrderPart -order-> Order (backref).   *)
(***************************************************************************)
EXTENDS Integers, Sequences, FiniteSets, TLC

VARIABLES heap,      \* the entities: address -> record (SQLAlchemy instances)
          plans,     \* the walker's registry: <<type, direction>> -> plan
          cacheD,    \* cache dict of the runs entity -> dict
          cacheE,    \* cache dict of the runs dict -> entity
          wire,      \* the dict last produced (the source of the runs back)
          last,      \* what the last operation was given and returned
          decl,      \* the mapped class the type supports are built for
          runs,      \* the runs under way side by side, each with its cache
          lists      \* the list objects a destination holds: id -> items

vars == <<heap, plans, cacheD, cacheE, wire, last, decl, runs, lists>>

(* ---------------------------------------------------------------------- *)
(* bounds                                                                  *)
(* ---------------------------------------------------------------------- *)
MaxHeap  == 24     \* entities that may exist
MaxOps   == 3      \* serializer calls in one behaviour
MaxAdded == 1      \* elements a client appends to the dict it received
MaxToken == 2      \* client-side reuse tokens and keys range over 1..MaxToken
IdBase   == 100    \* id(obj) of the entity at address a is IdBase + a

(* ---------------------------------------------------------------------- *)
(* values                                                                  *)
(* ---------------------------------------------------------------------- *)
None  == 0 - 1     \* Python's None as a field value
NoObj == 0         \* Python's None as an object reference

Range(s) == {s[i] : i \in DOMAIN s}

EmptyDict == [k \in {} |-> 0]
NoDict    == ("None" :> TRUE)             \* None where a dict is expected
DictSet(d, k, v) == (k :> v) @@ d         \* d[k] = v
Has(d, k) == k \in DOMAIN d               \* k in d

(* ---------------------------------------------------------------------- *)
(* schema (src/test.py)                                                    *)
(* ---------------------------------------------------------------------- *)
Types == {"Order", "OrderPart", "Operation"}

KeyNames(t) ==
    CASE t = "Order"     -> <<"order_id">>
      [] t = "OrderPart" -> <<"order_part_id">>
      [] t = "Operation" -> <<"operation_id">>
      [] t = "Link"      -> <<"left_id", "right_id">>   \* a composite key

\* the non-key column kept by the model
ScalarName(t) == IF t = "Order" THEN "cost" ELSE "name"

\* relations in declaration order; the backref last
SingleRels(t) == IF t = "OrderPart" THEN <<"operation", "order">> ELSE <<>>
MultiRels(t)  == IF t = "Order" THEN <<"parts">> ELSE <<>>
Relations(t)  == Range(SingleRels(t)) \cup Range(MultiRels(t))

\* every relation name of the schema: a field control map may name any
RelationNames == {"parts", "operation", "order"}

Target(t, r) ==
    CASE r = "parts"     -> "OrderPart"
      [] r = "operation" -> "Operation"
      [] r = "order"     -> "Order"

\* What a type support reads of a mapped class when it is built: the names
\* of the key columns and relationship( ...).property.collection_class of
\* its one-to-many relation.  "None" is a relationship declared without
\* collection_class (SQLAlchemy then keeps a list), "mapped" a collection
\* class that is neither list nor set (a dict keyed by an attribute).
CollectionClasses == {"None", "list", "set", "mapped"}

\* class Order of src/test.py
TestDecl == [keys |-> <<"order_id">>, collection |-> "None"]

(* ---------------------------------------------------------------------- *)
(* entities                                                                *)
(* ---------------------------------------------------------------------- *)
\* has: the relation attributes that were assigned or read on the instance
\* final: what the instance held each time a serializer handed it to
\* session.merge
NewEntity(t) ==
    [type |-> t, pk |-> [i \in DOMAIN KeyNames(t) |-> None], val |-> None,
     operation |-> NoObj, order |-> NoObj, parts |-> <<>>,
     has |-> {}, persistent |-> FALSE, final |-> <<>>]

IdOf(a) == IdBase + a

(* ---------------------------------------------------------------------- *)
(* Walker (spec.md 4.2)                                                    *)
(* ---------------------------------------------------------------------- *)
Dirs == {"to_dict", "to_sqla"}   \* SQLA -> SQLADict, SQLADict -> SQLA

\* a field control map: the relations marked SKIP, and those given a plan
EmptyFC == [skip |-> {}, explicit |-> {}]

RECURSIVE walk(_, _, _, _)
RECURSIVE walk_relations(_, _, _, _, _)
RECURSIVE walk_relations_into_skipped(_, _, _, _, _)

\* a walker that goes into the target of a skipped relation all the same
walk_relations_into_skipped(reg, t, dir, fc, rels) ==
    IF rels = <<>> THEN reg
    ELSE walk_relations_into_skipped(
             IF Head(rels) \in fc.explicit THEN reg
             ELSE walk(reg, Target(t, Head(rels)), dir, EmptyFC),
             t, dir, fc, Tail(rels))

walk_relations(reg, t, dir, fc, rels) ==
    IF rels = <<>> THEN reg
    ELSE LET r    == Head(rels)
             reg1 == IF r \in fc.skip \/ r \in fc.explicit
                     THEN reg
                     ELSE walk(reg, Target(t, r), dir, EmptyFC)
         IN  walk_relations(reg1, t, dir, fc, Tail(rels))

\* a walker that gives no step to a relation whose target is a type it is
\* still planning
walk_unbound(reg, t, dir, fc) ==
    IF <<t, dir>> \in DOMAIN reg
    THEN reg
    ELSE LET reg2 == walk_relations(
                        (<<t, dir>> :> [type |-> t, dir |-> dir, steps |-> {},
                                        skip |-> fc.skip, done |-> FALSE])
                        @@ reg,
                        t, dir, fc, SingleRels(t) \o MultiRels(t))
         IN  [reg2 EXCEPT ![<<t, dir>>] =
                 [@ EXCEPT !.done = TRUE,
                           !.steps = {r \in Relations(t) \ fc.skip :
                                        <<Target(t, r), dir>> \in DOMAIN reg2
                                        => reg2[<<Target(t, r), dir>>].done}]]

walk(reg, t, dir, fc) ==
    IF <<t, dir>> \in DOMAIN reg
    THEN reg                                           \* 1. reuse
    ELSE LET placeholder == [type |-> t, dir |-> dir, steps |-> {},
                             skip |-> fc.skip, done |-> FALSE]
             reg1 == (<<t, dir>> :> placeholder) @@ reg  \* 2. before recursing
             reg2 == walk_relations(reg1, t, dir, fc,
                                    SingleRels(t) \o MultiRels(t))
         IN  [reg2 EXCEPT ![<<t, dir>>] =
                 [@ EXCEPT !.steps = Relations(t) \ fc.skip, !.done = TRUE]]

\* a walk that lets a field control map name relations t does not have
SQLAWalker_walk_unchecked(reg, t, dir, fc) ==
    [reg |-> walk(reg, t, dir, fc), err |-> ""]

\* a walk that builds the plan of t again when the registry has one
SQLAWalker_walk_rebuilding(reg, t, dir, fc) ==
    IF ~((fc.skip \cup fc.explicit) \subseteq Relations(t))
    THEN [reg |-> reg, err |-> "UnknownFieldControl"]
    ELSE [reg |-> walk([k \in DOMAIN reg \ {<<t, dir>>} |-> reg[k]],
                       t, dir, fc),
          err |-> ""]

\* walker.walk( source_ts, T, dest_ts, fields_control): the field control
\* map is checked against the relations of T before anything is built
SQLAWalker_walk(reg, t, dir, fc) ==
    IF ~((fc.skip \cup fc.explicit) \subseteq Relations(t))
    THEN [reg |-> reg, err |-> "UnknownFieldControl"]
    ELSE [reg |-> walk(reg, t, dir, fc), err |-> ""]

\* the relation steps of the plan of t, in order
SingleSteps(t, dir) ==
    SelectSeq(SingleRels(t), LAMBDA r : r \in plans[<<t, dir>>].steps)
MultiSteps(t, dir) ==
    SelectSeq(MultiRels(t), LAMBDA r : r \in plans[<<t, dir>>].steps)

(* ---------------------------------------------------------------------- *)
(* entity -> dict  (SQLATypeSupport -> SQLADictTypeSupport)                *)
(* ---------------------------------------------------------------------- *)
\* cache_key = id(source)
SQLA_cache_key(source) == [tag |-> "id", v |-> <<IdOf(source)>>]

\* Python's any() over key values: None and 0 are false
any(vals) == \E i \in DOMAIN vals : vals[i] # None /\ vals[i] # 0

KeyIndex(t, k) == CHOOSE i \in DOMAIN KeyNames(t) : KeyNames(t)[i] = k

\* { base_parts, 'k' : source.k, ... }
make_cache_value_expression(t, pk, base) ==
    [k \in DOMAIN base \cup Range(KeyNames(t)) |->
        IF k \in DOMAIN base THEN base[k] ELSE pk[KeyIndex(t, k)]]

\* a cache that keeps the surrogate for every entity, and marks only the
\* dict of an entity without key
SQLADict_cache_on_write_surrogate(h, t, source, cache_key, cache, dest) ==
    [cache |-> (cache_key :>
                  make_cache_value_expression(t, h[source].pk,
                      ("__PYX_REUSE" :> [kind |-> "int", v |-> <<IdOf(source)>>])))
               @@ cache,
     res   |-> IF any(h[source].pk) THEN dest
               ELSE DictSet(dest, "__PYXID", IdOf(source))]

\* a cache that keeps a copy of the entity's columns for later occurrences
SQLADict_cache_on_write_full(h, t, source, cache_key, cache, dest) ==
    [cache |-> (cache_key :>
                  make_cache_value_expression(t, h[source].pk,
                      (ScalarName(t) :> h[source].val)))
               @@ cache,
     res   |-> dest]

\* the value kept for later occurrences, and the mark left on dest
SQLADict_cache_on_write(h, t, source, cache_key, cache, dest) ==
    IF any(h[source].pk)        \* any(zulu[1:])
    THEN [cache |-> (cache_key :>
                      ("__PYX_REUSE" :> [kind |-> "tuple", v |-> h[source].pk]))
                    @@ cache,
          res   |-> dest]
    ELSE [cache |-> (cache_key :>
                      make_cache_value_expression(t, h[source].pk,
                          ("__PYX_REUSE" :>
                              [kind |-> "int", v |-> <<IdOf(source)>>])))
                    @@ cache,
          res   |-> DictSet(dest, "__PYXID", IdOf(source))]

\* dest['f'] = source.f for every column
copy_fields_to_dict(h, t, source, w) ==
    [cache |-> w.cache,
     res   |-> [k \in DOMAIN w.res \cup Range(KeyNames(t)) \cup {ScalarName(t)} |->
                  IF k = ScalarName(t) THEN h[source].val
                  ELSE IF k \in Range(KeyNames(t))
                       THEN h[source].pk[KeyIndex(t, k)]
                       ELSE w.res[k]]]

\* dest[r] = <the child's result>
put_relation(c, dest, r) == [cache |-> c.cache, res |-> DictSet(dest, r, c.res)]
append_item(c, acc) == [cache |-> c.cache, res |-> Append(acc, c.res)]

RECURSIVE serialize_to_dict(_, _, _, _, _)
RECURSIVE single_steps_to_dict(_, _, _, _, _)
RECURSIVE Dict_relation_copy(_, _, _, _)

\* dest[r] = [] ; for item in source.r: dest[r].append( child(item, None))
Dict_relation_copy(h, t, items, a) ==
    IF items = <<>> THEN a
    ELSE Dict_relation_copy(h, t, Tail(items),
             append_item(serialize_to_dict(h, t, Head(items), NoDict, a.cache),
                         a.res))

\* if source.r: dest[r] = child(source.r, dest's r if it has one)
single_steps_to_dict(h, t, source, rels, s) ==
    IF rels = <<>> THEN s
    ELSE IF h[source][Head(rels)] = NoObj
    THEN single_steps_to_dict(h, t, source, Tail(rels), s)
    ELSE single_steps_to_dict(h, t, source, Tail(rels),
             put_relation(
                 serialize_to_dict(h, Target(t, Head(rels)),
                     h[source][Head(rels)],
                     IF Has(s.res, Head(rels)) THEN s.res[Head(rels)] ELSE NoDict,
                     s.cache),
                 s.res, Head(rels)))

multi_steps_to_dict(h, t, source, s) ==
    IF MultiSteps(t, "to_dict") = <<>> THEN s
    ELSE put_relation(
             Dict_relation_copy(h, Target(t, "parts"), h[source].parts,
                                [cache |-> s.cache, res |-> <<>>]),
             s.res, "parts")

\* the serializer to dicts: cache, create, mark, fields, relations
serialize_to_dict(h, t, source, dest, cache) ==
    IF SQLA_cache_key(source) \in DOMAIN cache
    THEN [cache |-> cache, res |-> cache[SQLA_cache_key(source)]]
    ELSE multi_steps_to_dict(h, t, source,
           single_steps_to_dict(h, t, source, SingleSteps(t, "to_dict"),
             copy_fields_to_dict(h, t, source,
               SQLADict_cache_on_write(h, t, source, SQLA_cache_key(source),
                   cache, IF dest = NoDict THEN EmptyDict ELSE dest))))

(* ---------------------------------------------------------------------- *)
(* session.merge (SQLAlchemy)                                              *)
(* ---------------------------------------------------------------------- *)
\* The instance that receives the state of x: the persistent instance with
\* the primary key of x, or the one an equal key was merged into earlier in
\* this call; NoObj when there is none (a new instance is made).
session_lookup(h, memo, x) ==
    LET keyed  == \A i \in DOMAIN h[x].pk : h[x].pk[i] # None
        stored == {a \in DOMAIN h : h[a].persistent /\ h[a].type = h[x].type
                                     /\ h[a].pk = h[x].pk}
        merged == {memo[y] : y \in {z \in DOMAIN memo :
                                h[z].type = h[x].type /\ h[z].pk = h[x].pk}}
    IN  IF keyed /\ stored # {} THEN CHOOSE a \in stored : TRUE
        ELSE IF keyed /\ merged # {} THEN CHOOSE a \in merged : TRUE
        ELSE NoObj

\* the receiving instance, with the columns of x copied
merge_target(h, memo, x, found) ==
    IF found = NoObj
    THEN [heap |-> Append(h, [NewEntity(h[x].type) EXCEPT
                                 !.pk = h[x].pk, !.val = h[x].val]),
          memo |-> (x :> Len(h) + 1) @@ memo, res |-> Len(h) + 1]
    ELSE [heap |-> [h EXCEPT ![found].pk = h[x].pk, ![found].val = h[x].val],
          memo |-> (x :> found) @@ memo, res |-> found]

set_rel(m, tgt, r) ==
    [heap |-> [m.heap EXCEPT ![tgt][r] = m.res, ![tgt].has = @ \cup {r}],
     memo |-> m.memo, res |-> tgt]
push(m, acc) == [heap |-> m.heap, memo |-> m.memo, res |-> Append(acc, m.res)]

RECURSIVE merge_rec(_, _, _)
RECURSIVE merge_single(_, _, _, _)
RECURSIVE merge_collection(_, _)

merge_collection(items, a) ==
    IF items = <<>> THEN a
    ELSE merge_collection(Tail(items),
                          push(merge_rec(a.heap, a.memo, Head(items)), a.res))

\* the cascade along one relation of x
merge_single(x, tgt, r, m) ==
    IF r \notin m.heap[x].has THEN m
    ELSE IF m.heap[x][r] = NoObj
    THEN set_rel([heap |-> m.heap, memo |-> m.memo, res |-> NoObj], tgt, r)
    ELSE set_rel(merge_rec(m.heap, m.memo, m.heap[x][r]), tgt, r)

merge_parts(x, tgt, m) ==
    IF "parts" \notin m.heap[x].has THEN m
    ELSE set_rel(merge_collection(m.heap[x].parts,
                     [heap |-> m.heap, memo |-> m.memo, res |-> <<>>]),
                 tgt, "parts")

merge_into(x, m) ==
    merge_parts(x, m.res,
        merge_single(x, m.res, "order",
            merge_single(x, m.res, "operation", m)))

merge_rec(h, memo, x) ==
    IF x \in DOMAIN memo THEN [heap |-> h, memo |-> memo, res |-> memo[x]]
    ELSE IF h[x].persistent
    THEN [heap |-> h, memo |-> (x :> x) @@ memo, res |-> x]
    ELSE merge_into(x, merge_target(h, memo, x, session_lookup(h, memo, x)))

\* session.merge( x)
session_merge(h, x) == merge_rec(h, <<>>, x)

(* ---------------------------------------------------------------------- *)
(* dict -> entity  (SQLADictTypeSupport -> SQLATypeSupport)                *)
(* ---------------------------------------------------------------------- *)
NoKey == [tag |-> "", v |-> <<>>]

\* a cache key without the name of the type in front
SQLADict_cache_key_untagged(t, source) ==
    IF Has(source, "__PYX_REUSE")
    THEN IF source["__PYX_REUSE"].kind = "list"
         THEN [key |-> NoKey, err |-> "TypeError"]
         ELSE [key |-> [tag |-> "", v |-> source["__PYX_REUSE"].v], err |-> ""]
    ELSE IF Has(source, "__PYXID")
    THEN [key |-> [tag |-> "", v |-> <<source["__PYXID"]>>], err |-> ""]
    ELSE IF \A i \in DOMAIN KeyNames(t) : Has(source, KeyNames(t)[i])
    THEN [key |-> [tag |-> "",
                   v   |-> [i \in DOMAIN KeyNames(t) |-> source[KeyNames(t)[i]]]],
          err |-> ""]
    ELSE [key |-> NoKey, err |-> "KeyError"]

\* SQLADictTypeSupport.cache_key; cache_base_name is the type's name
SQLADict_cache_key(t, source) ==
    IF Has(source, "__PYX_REUSE")
    THEN IF source["__PYX_REUSE"].kind = "list"
         THEN [key |-> NoKey, err |-> "TypeError"]      \* tuple + list
         ELSE [key |-> [tag |-> t, v |-> source["__PYX_REUSE"].v], err |-> ""]
    ELSE IF Has(source, "__PYXID")
    THEN [key |-> [tag |-> t, v |-> <<source["__PYXID"]>>], err |-> ""]
    ELSE IF \A i \in DOMAIN KeyNames(t) : Has(source, KeyNames(t)[i])
    THEN [key |-> [tag |-> t,
                   v   |-> [i \in DOMAIN KeyNames(t) |-> source[KeyNames(t)[i]]]],
          err |-> ""]
    ELSE [key |-> NoKey, err |-> "KeyError"]

\* cache.get( key, None)
cache_get(cache, key) == IF key \in DOMAIN cache THEN cache[key] ELSE NoObj

\* cache[cache_key] = dest
SQLA_cache_on_write(cache, cache_key, dest) == (cache_key :> dest) @@ cache

\* _sqla_session_add( session, T())
gen_create_instance(h, t) == [heap |-> Append(h, NewEntity(t)), res |-> Len(h) + 1]

FieldNames(t) == Range(KeyNames(t)) \cup {ScalarName(t)}

\* dest.f = source['f'] for every column
copy_fields_to_sqla(h, t, source, dest) ==
    [h EXCEPT ![dest].pk  = [i \in DOMAIN KeyNames(t) |-> source[KeyNames(t)[i]]],
              ![dest].val = source[ScalarName(t)]]

\* seq.remove(x): the first occurrence
list_remove(seq, x) ==
    LET i == CHOOSE j \in DOMAIN seq :
                 seq[j] = x /\ \A k \in 1..(j - 1) : seq[k] # x
    IN  SubSeq(seq, 1, i - 1) \o SubSeq(seq, i + 1, Len(seq))

RECURSIVE remove_all(_, _)
\* for item in todo: seq.remove(item)
remove_all(seq, todo) ==
    IF todo = {} THEN seq
    ELSE remove_all(list_remove(seq, CHOOSE y \in todo : TRUE),
                    todo \ {CHOOSE y \in todo : TRUE})

Raise(h, cache, err) == [heap |-> h, cache |-> cache, err |-> err, res |-> NoObj]

\* if dest_item is None: dest.r.append( dest_item2) ; used.add( dest_item2)
add_item(c, dest_item, dest, r, used) ==
    IF c.err # ""
    THEN [heap |-> c.heap, cache |-> c.cache, err |-> c.err, used |-> used]
    ELSE [heap  |-> IF dest_item = NoObj
                    THEN [c.heap EXCEPT ![dest][r] = Append(@, c.res),
                                        ![dest].has = @ \cup {r}]
                    ELSE c.heap,
          cache |-> c.cache, err |-> "", used |-> used \cup {c.res}]

\* for item in set( dest.r) - used: dest.r.remove( item)
remove_unused(l, dest, r) ==
    IF l.err # "" THEN Raise(l.heap, l.cache, l.err)
    ELSE [heap  |-> [l.heap EXCEPT ![dest][r] =
                        remove_all(@, Range(@) \ l.used),
                                   ![dest].has = @ \cup {r}],
          cache |-> l.cache, err |-> "", res |-> dest]

\* dest.r = <the child's result>
write_relation(c, dest, r) ==
    IF c.err # "" THEN c
    ELSE [heap  |-> [c.heap EXCEPT ![dest][r] = c.res,
                                   ![dest].has = @ \cup {r}],
          cache |-> c.cache, err |-> "", res |-> dest]

\* the serializer without the merge: it returns the instance it filled
check_instance_serializer_unmerged(m, dest) ==
    IF m.err # "" THEN Raise(m.heap, m.cache, m.err)
    ELSE [heap |-> m.heap, cache |-> m.cache, err |-> "", res |-> dest]

\* the call of the hook is noted on the instance it is given
finalized(h, dest) ==
    [h EXCEPT ![dest].final =
        Append(@, [pk |-> h[dest].pk, val |-> h[dest].val, has |-> h[dest].has])]

\* dest = session.merge( dest)
check_instance_serializer(m, dest) ==
    IF m.err # "" THEN Raise(m.heap, m.cache, m.err)
    ELSE [heap  |-> session_merge(finalized(m.heap, dest), dest).heap,
          cache |-> m.cache,
          err   |-> "",
          res   |-> session_merge(finalized(m.heap, dest), dest).res]

RECURSIVE serialize_to_sqla(_, _, _, _, _)
RECURSIVE single_steps_to_sqla(_, _, _, _, _)
RECURSIVE merge_relation_items(_, _, _, _, _)

\* one turn of the loop over the source items
merge_item(t, item, dest, r, l, rck) ==
    IF rck.err # "" THEN [l EXCEPT !.err = rck.err]
    ELSE add_item(serialize_to_sqla(l.heap, t, item,
                                    cache_get(l.cache, rck.key), l.cache),
                  cache_get(l.cache, rck.key), dest, r, l.used)

merge_relation_items(t, items, dest, r, l) ==
    IF items = <<>> \/ l.err # "" THEN l
    ELSE merge_relation_items(t, Tail(items), dest, r,
             merge_item(t, Head(items), dest, r, l,
                        SQLADict_cache_key(t, Head(items))))

\* gen_merge_relation_sqla: merge source[r] into dest.r
gen_merge_relation_sqla(h, t, source, dest, r, cache) ==
    IF ~Has(source, r) THEN Raise(h, cache, "KeyError")
    ELSE remove_unused(
             merge_relation_items(Target(t, r), source[r], dest, r,
                 [heap |-> h, cache |-> cache, err |-> "", used |-> {}]),
             dest, r)

\* if r in source: dest.r = child( source[r], dest.r)
single_steps_to_sqla(t, source, rels, dest, s) ==
    IF rels = <<>> \/ s.err # "" THEN s
    ELSE IF ~Has(source, Head(rels))
    THEN single_steps_to_sqla(t, source, Tail(rels), dest, s)
    ELSE single_steps_to_sqla(t, source, Tail(rels), dest,
             write_relation(
                 serialize_to_sqla(s.heap, Target(t, Head(rels)),
                     source[Head(rels)], s.heap[dest][Head(rels)], s.cache),
                 dest, Head(rels)))

multi_steps_to_sqla(t, source, dest, s) ==
    IF s.err # "" \/ MultiSteps(t, "to_sqla") = <<>> THEN s
    ELSE gen_merge_relation_sqla(s.heap, t, source, dest, "parts", s.cache)

\* a serializer that merges as soon as the columns are copied, before the
\* relation steps
fill_sqla_merge_first(t, source, key, cache, n) ==
    IF ~(FieldNames(t) \subseteq DOMAIN source)
    THEN Raise(n.heap, SQLA_cache_on_write(cache, key, n.res), "KeyError")
    ELSE multi_steps_to_sqla(t, source, n.res,
           single_steps_to_sqla(t, source, SingleSteps(t, "to_sqla"), n.res,
             check_instance_serializer(
               [heap  |-> copy_fields_to_sqla(n.heap, t, source, n.res),
                cache |-> SQLA_cache_on_write(cache, key, n.res),
                err   |-> "", res |-> n.res],
               n.res)))

\* a serializer that leaves the columns alone when its source lacks one
fill_sqla_lenient(t, source, key, cache, n) ==
    IF ~(FieldNames(t) \subseteq DOMAIN source)
    THEN check_instance_serializer(
           [heap  |-> n.heap,
            cache |-> SQLA_cache_on_write(cache, key, n.res),
            err   |-> "", res |-> n.res],
           n.res)
    ELSE check_instance_serializer(
           multi_steps_to_sqla(t, source, n.res,
             single_steps_to_sqla(t, source, SingleSteps(t, "to_sqla"), n.res,
               [heap  |-> copy_fields_to_sqla(n.heap, t, source, n.res),
                cache |-> SQLA_cache_on_write(cache, key, n.res),
                err   |-> "", res |-> n.res])),
           n.res)

\* the body of the serializer once dest is there: cache, fields, relations,
\* merge
fill_sqla(t, source, key, cache, n) ==
    IF ~(FieldNames(t) \subseteq DOMAIN source)
    THEN Raise(n.heap, SQLA_cache_on_write(cache, key, n.res), "KeyError")
    ELSE check_instance_serializer(
           multi_steps_to_sqla(t, source, n.res,
             single_steps_to_sqla(t, source, SingleSteps(t, "to_sqla"), n.res,
               [heap  |-> copy_fields_to_sqla(n.heap, t, source, n.res),
                cache |-> SQLA_cache_on_write(cache, key, n.res),
                err   |-> "", res |-> n.res])),
           n.res)

\* a serializer that fills the cached instance again when the key is in
\* the cache
lookup_sqla_refill(h, t, source, dest, cache, ck) ==
    IF ck.err # "" THEN Raise(h, cache, ck.err)
    ELSE fill_sqla(t, source, ck.key, cache,
                   IF ck.key \in DOMAIN cache
                   THEN [heap |-> h, res |-> cache[ck.key]]
                   ELSE IF dest = NoObj THEN gen_create_instance(h, t)
                   ELSE [heap |-> h, res |-> dest])

lookup_sqla(h, t, source, dest, cache, ck) ==
    IF ck.err # "" THEN Raise(h, cache, ck.err)
    ELSE IF ck.key \in DOMAIN cache
    THEN [heap |-> h, cache |-> cache, err |-> "", res |-> cache[ck.key]]
    ELSE fill_sqla(t, source, ck.key, cache,
                   IF dest = NoObj THEN gen_create_instance(h, t)
                   ELSE [heap |-> h, res |-> dest])

\* the serializer to entities
serialize_to_sqla(h, t, source, dest, cache) ==
    lookup_sqla(h, t, source, dest, cache, SQLADict_cache_key(t, source))

(* ---------------------------------------------------------------------- *)
(* initial states                                                          *)
(* ---------------------------------------------------------------------- *)
\* The fixture of src/test.py (setUpClass) and variations of it:
\*   1 an Operation, 2..4 OrderParts, 5 an Order.
\* A stored entity has its primary key and is persistent; a new one has no
\* key yet.
Entity(t, pk, val, operation, order, parts, persistent) ==
    [type |-> t, pk |-> <<pk>>, val |-> val,
     operation |-> operation, order |-> order, parts |-> parts,
     has |-> Relations(t), persistent |-> persistent, final |-> <<>>]

OpAddr    == 1
OrderAddr == 5

KeyIf(stored, k) == IF stored THEN k ELSE None

InitHeaps ==
    { << Entity("Operation", opk, 7, NoObj, NoObj, <<>>, opk # None),
         Entity("OrderPart", KeyIf(stored, 1), 1, OpAddr,
                IF 2 \in Range(ps) THEN OrderAddr ELSE NoObj, <<>>, stored),
         Entity("OrderPart", KeyIf(stored, 2), 2, OpAddr,
                IF 3 \in Range(ps) THEN OrderAddr ELSE NoObj, <<>>, stored),
         Entity("OrderPart", KeyIf(stored, 3), 3, NoObj,
                IF 4 \in Range(ps) THEN OrderAddr ELSE NoObj, <<>>, stored),
         Entity("Order", KeyIf(stored, 1), 9, NoObj, NoObj, ps, stored) >> :
      opk \in {None, 0, 1}, stored \in BOOLEAN,
      ps \in {<<>>, <<2, 3>>, <<2, 3, 4>>} }

\* the serializers of test_autogen, of test_happy, and of a walk that skips
\* nothing on the way to dicts
FC(skip, explicit) == [skip |-> skip, explicit |-> explicit]

BuildAutogen(dir) ==
    walk(walk(<<>>, "OrderPart", dir, FC({"order"}, {})), "Order", dir, EmptyFC)
BuildHappy(dir) ==
    walk(walk(<<>>, "OrderPart", dir, FC({"order", "operation"}, {})),
         "Order", dir, FC({}, {"parts"}))
BuildAll(dir) == walk(<<>>, "Order", dir, EmptyFC)

Registries ==
    { BuildAutogen("to_dict") @@ BuildAutogen("to_sqla"),
      BuildHappy("to_dict")   @@ BuildHappy("to_sqla"),
      BuildAll("to_dict")     @@ BuildAutogen("to_sqla") }

NoWire == [t |-> "", d |-> NoDict, src |-> NoObj, fresh |-> FALSE,
           edited |-> FALSE, added |-> 0]

Idle == [op |-> "init", t |-> "", dir |-> "", src |-> NoObj,
         srcDict |-> NoDict, dest |-> NoObj, res |-> NoObj, out |-> NoDict,
         err |-> "", heap0 |-> <<>>, cache0 |-> <<>>, n |-> 0,
         fc |-> EmptyFC]

Init ==
    /\ heap \in InitHeaps
    /\ plans \in Registries
    /\ cacheD = <<>>
    /\ cacheE = <<>>
    /\ wire = NoWire
    /\ last = Idle
    /\ decl = TestDecl
    /\ runs = <<>>
    /\ lists = <<>>

(* ---------------------------------------------------------------------- *)
(* operations                                                              *)
(* ---------------------------------------------------------------------- *)
\* The caller of a serializer passes the cache dict of an earlier call, or
\* none: the serializer then starts with a new one.
CacheArg(fresh, cache) == IF fresh THEN <<>> ELSE cache

\* the entities the caller serializes: the Operation, a part, the Order
Roots == {OpAddr, OpAddr + 1, OrderAddr}

Serialized(t, a, cache0, r) ==
    /\ cacheD' = r.cache
    /\ wire' = [t |-> t, d |-> r.res, src |-> a, fresh |-> cache0 = <<>>,
                edited |-> FALSE, added |-> 0]
    /\ last' = [op |-> "to_dict", t |-> t, dir |-> "to_dict", src |-> a,
                srcDict |-> NoDict, dest |-> NoObj, res |-> NoObj,
                out |-> r.res, err |-> "",
                heap0 |-> heap, cache0 |-> cache0, n |-> last.n + 1,
                fc |-> EmptyFC]

Deserialized(t, source, dest, cache0, r) ==
    /\ Len(r.heap) <= MaxHeap
    /\ heap' = r.heap
    /\ cacheE' = r.cache
    /\ last' = [op |-> "to_sqla", t |-> t, dir |-> "to_sqla", src |-> NoObj,
                srcDict |-> source, dest |-> dest, res |-> r.res,
                out |-> NoDict, err |-> r.err,
                heap0 |-> heap, cache0 |-> cache0, n |-> last.n + 1,
                fc |-> EmptyFC]

\* serialize_<T>_<T>_to_dict( source, None, cache)
Serialize(t, a, fresh) ==
    /\ last.n < MaxOps
    /\ <<t, "to_dict">> \in DOMAIN plans
    /\ heap[a].type = t
    /\ Serialized(t, a, CacheArg(fresh, cacheD),
                  serialize_to_dict(heap, t, a, NoDict,
                                    CacheArg(fresh, cacheD)))
    /\ UNCHANGED <<heap, plans, cacheE, decl, runs, lists>>

\* serialize_<T>_dict_to_<T>( source, dest, session, cache)
Deserialize(t, source, dest, fresh) ==
    /\ last.n < MaxOps
    /\ <<t, "to_sqla">> \in DOMAIN plans
    /\ dest = NoObj \/ (dest \in DOMAIN heap /\ heap[dest].type = t
                                              /\ heap[dest].persistent)
    /\ Deserialized(t, source, dest, CacheArg(fresh, cacheE),
                    serialize_to_sqla(heap, t, source, dest,
                                      CacheArg(fresh, cacheE)))
    /\ UNCHANGED <<plans, cacheD, wire, decl, runs, lists>>

\* the dict comes back: into a new instance, or into the stored entity it
\* was made from
DeserializeWire ==
    /\ wire.t # ""
    /\ \E dest \in {NoObj, wire.src}, fresh \in BOOLEAN :
           Deserialize(wire.t, wire.d, dest, fresh)

\* the caller deserializes one element of the relation on its own
DeserializeItem ==
    /\ wire.t = "Order" /\ Has(wire.d, "parts")
    /\ \E i \in DOMAIN wire.d["parts"], fresh \in BOOLEAN :
           Deserialize("OrderPart", wire.d["parts"][i], NoObj, fresh)

\* the client drops an element of the relation of the dict it received
RemoveItem ==
    /\ wire.t = "Order" /\ Has(wire.d, "parts")
    /\ wire.added = 0
    /\ \E i \in DOMAIN wire.d["parts"] :
          wire' = [wire EXCEPT !.edited = TRUE,
                     !.d = DictSet(wire.d, "parts",
                              SubSeq(wire.d["parts"], 1, i - 1) \o
                              SubSeq(wire.d["parts"], i + 1,
                                     Len(wire.d["parts"])))]
    /\ UNCHANGED <<heap, plans, cacheD, cacheE, last, decl, runs, lists>>

\* the client appends an element it made itself, with a key of its own
ClientPart(k) == ("order_part_id" :> k) @@ ("name" :> 5)

AddItem ==
    /\ wire.t = "Order" /\ Has(wire.d, "parts")
    /\ wire.added < MaxAdded
    /\ wire' = [wire EXCEPT !.edited = TRUE, !.added = @ + 1,
                   !.d = DictSet(wire.d, "parts",
                            Append(wire.d["parts"], ClientPart(4)))]
    /\ UNCHANGED <<heap, plans, cacheD, cacheE, last, decl, runs, lists>>

Next ==
    \/ \E t \in Types, a \in Roots, fresh \in BOOLEAN : Serialize(t, a, fresh)
    \/ DeserializeWire
    \/ DeserializeItem
    \/ RemoveItem
    \/ AddItem

Spec == Init /\ [][Next]_vars

(* ---------------------------------------------------------------------- *)
(* the walker at work: the registry starts empty                           *)
(* ---------------------------------------------------------------------- *)
\* the stored fixture: an Order with two parts
WalkHeaps == {h \in InitHeaps : h[OrderAddr].persistent
                                 /\ Len(h[OrderAddr].parts) = 2}

InitWalk ==
    /\ heap \in WalkHeaps
    /\ plans = <<>>
    /\ cacheD = <<>>
    /\ cacheE = <<>>
    /\ wire = NoWire
    /\ last = Idle
    /\ decl = TestDecl
    /\ runs = <<>>
    /\ lists = <<>>

\* walker.walk( source_ts, T, dest_ts, fields_control)
\* The plans are all built before the serializers are generated and called.
Walk(t, dir, fc) ==
    /\ last.n = 0
    /\ fc.skip \cap fc.explicit = {}
    /\ \A r \in fc.explicit \cap Relations(t) :
          <<Target(t, r), dir>> \in DOMAIN plans
    /\ plans' = SQLAWalker_walk(plans, t, dir, fc).reg
    /\ last' = [Idle EXCEPT !.op = "walk", !.t = t, !.dir = dir, !.n = last.n,
                            !.fc = fc,
                            !.err = SQLAWalker_walk(plans, t, dir, fc).err]
    /\ UNCHANGED <<heap, cacheD, cacheE, wire, decl, runs, lists>>

\* the names a caller puts in the field control map of t: its relations,
\* and one that belongs to another type
ControlNames(t) ==
    Relations(t) \cup {CHOOSE r \in RelationNames : r \notin Relations(t)}

NextWalk ==
    \/ \E t \in Types, dir \in Dirs :
         \E skip \in SUBSET ControlNames(t), explicit \in SUBSET ControlNames(t) :
            Walk(t, dir, FC(skip, explicit))
    \/ \E t \in Types, a \in Roots : Serialize(t, a, TRUE)

SpecWalk == InitWalk /\ [][NextWalk]_vars

(* ---------------------------------------------------------------------- *)
(* dicts made by a client: tokens and keys are both plain integers         *)
(* ---------------------------------------------------------------------- *)
TokenValues == 1..MaxToken
KeyValues   == 1..MaxToken

\* a new Operation marked with a token, a reference to it, a keyed Operation
ClientOperations ==
    { ("__PYXID" :> n) @@ ("operation_id" :> None) @@ ("name" :> 7) :
          n \in TokenValues }
    \cup
    { ("__PYX_REUSE" :> [kind |-> "int", v |-> <<n>>]) @@
      ("operation_id" :> None) : n \in TokenValues }
    \cup
    { ("operation_id" :> k) @@ ("name" :> 8) : k \in KeyValues }

\* the same for OrderParts, with the tokens and the key values of the
\* Operations
ClientParts ==
    { ("__PYXID" :> n) @@ ("order_part_id" :> None) @@ ("name" :> 7) :
          n \in TokenValues }
    \cup
    { ("__PYX_REUSE" :> [kind |-> "int", v |-> <<n>>]) @@
      ("order_part_id" :> None) : n \in TokenValues }
    \cup
    { ("order_part_id" :> k) @@ ("name" :> 8) : k \in KeyValues }

InitKey ==
    /\ heap = <<>>
    /\ plans = BuildAutogen("to_dict") @@ BuildAutogen("to_sqla")
    /\ cacheD = <<>>
    /\ cacheE = <<>>
    /\ wire = NoWire
    /\ last = Idle
    /\ decl = TestDecl
    /\ runs = <<>>
    /\ lists = <<>>

\* the client hands over a dict of its own
Submit(t, d) ==
    /\ wire' = [t |-> t, d |-> d, src |-> NoObj, fresh |-> FALSE,
                edited |-> TRUE, added |-> 0]
    /\ UNCHANGED <<heap, plans, cacheD, cacheE, last, decl, runs, lists>>

\* the token of a dict as a key of the cache on its own: the tuple of its
\* elements, with no type name in front
RawKey(token) == [tag |-> "", v |-> token.v]

\* peek( source, cache) of a serializer of type t
peek(t, source, cache) ==
    IF Has(source, "__PYX_REUSE")
    THEN IF source["__PYX_REUSE"].kind = "list"
         THEN [res |-> NoObj, err |-> "TypeError"]       \* unhashable
         ELSE [res |-> cache_get(cache, RawKey(source["__PYX_REUSE"])),
               err |-> ""]
    ELSE [res |-> NoObj, err |-> ""]

\* a serializer peeks for the instance of the dict it is given
Peek ==
    /\ wire.t # ""
    /\ last' = [Idle EXCEPT !.op = "peek", !.t = wire.t, !.dir = "to_sqla",
                            !.srcDict = wire.d, !.cache0 = cacheE,
                            !.heap0 = heap, !.n = last.n,
                            !.res = peek(wire.t, wire.d, cacheE).res,
                            !.err = peek(wire.t, wire.d, cacheE).err]
    /\ UNCHANGED <<heap, plans, cacheD, cacheE, wire, decl, runs, lists>>

NextKey ==
    \/ \E d \in ClientOperations : Submit("Operation", d)
    \/ \E d \in ClientParts : Submit("OrderPart", d)
    \/ DeserializeWire
    \/ Peek

SpecKey == InitKey /\ [][NextKey]_vars

(* ---------------------------------------------------------------------- *)
(* one entity, its full and its short form, and the way through JSON       *)
(* ---------------------------------------------------------------------- *)
FormTypes == {"Operation", "Link"}

\* the values a key column may hold
FormKeys == {None, 0, 1}

\* one entity, with a single or a composite key, set, partly set or unset
FormHeaps ==
    { << [NewEntity("Operation") EXCEPT !.pk = <<k>>, !.val = 7,
                                        !.persistent = k # None] >> :
         k \in FormKeys }
    \cup
    { << [NewEntity("Link") EXCEPT !.pk = <<k, l>>, !.val = 7,
                                   !.persistent = (k # None /\ l # None)] >> :
         k \in FormKeys, l \in FormKeys }

FormPlans ==
    walk(walk(walk(walk(<<>>, "Operation", "to_dict", EmptyFC),
                   "Operation", "to_sqla", EmptyFC),
              "Link", "to_dict", EmptyFC),
         "Link", "to_sqla", EmptyFC)

InitForm ==
    /\ heap \in FormHeaps
    /\ plans = FormPlans
    /\ cacheD = <<>>
    /\ cacheE = <<>>
    /\ wire = NoWire
    /\ last = Idle
    /\ decl = TestDecl
    /\ runs = <<>>
    /\ lists = <<>>

\* json.loads( json.dumps( d)) of a dict without relations: a tuple comes
\* back as a list
to_json(d) ==
    [k \in DOMAIN d |->
        IF k = "__PYX_REUSE" /\ d[k].kind = "tuple"
        THEN [kind |-> "list", v |-> d[k].v]
        ELSE d[k]]

\* the dict travels as JSON
JsonRoundTrip ==
    /\ wire.t # ""
    /\ to_json(wire.d) # wire.d
    /\ wire' = [wire EXCEPT !.d = to_json(@), !.edited = TRUE]
    /\ UNCHANGED <<heap, plans, cacheD, cacheE, last, decl, runs, lists>>

NextForm ==
    \/ \E t \in FormTypes, fresh \in BOOLEAN : Serialize(t, 1, fresh)
    \/ JsonRoundTrip
    \/ DeserializeWire

SpecForm == InitForm /\ [][NextForm]_vars

(* ---------------------------------------------------------------------- *)
(* serializing into a destination the caller holds                         *)
(* ---------------------------------------------------------------------- *)
\* DictTypeSupport (a dict) or ObjectTypeSupport (a plain object, seen as
\* the dict of its attributes)
DestKinds == {"dict", "object"}

\* what the list of the destination held before: parts of an earlier state
StalePart(k) == ("order_part_id" :> k) @@ ("name" :> k)
StaleLists == {<<>>, <<StalePart(8)>>, <<StalePart(1), StalePart(8), StalePart(9)>>}

\* the destination: 'parts' refers to the list object 1
HeldDest == ("cost" :> 0) @@ ("parts" :> 1)

InitCopy ==
    /\ heap \in InitHeaps
    /\ plans \in {BuildAutogen("to_dict"), BuildAll("to_dict")}
    /\ cacheD = <<>>
    /\ cacheE = <<>>
    /\ wire = [NoWire EXCEPT !.t = "Order", !.d = HeldDest, !.src = OrderAddr]
    /\ last = Idle
    /\ decl = TestDecl
    /\ runs = <<>>
    /\ lists \in {(1 :> l) : l \in StaleLists}

\* a list object that exists already keeps its identity, a new one gets
\* the next
NewList(ls) == Cardinality(DOMAIN ls) + 1

\* both kinds of destination emptied in place
relation_store_in_place(kind, ls, old, items) ==
    [lists |-> [ls EXCEPT ![old] = items], ref |-> old]

\* dest['parts'] = [] binds a new list; dest.parts.clear() empties the one
\* that is there; the appends then go to that list
relation_store(kind, ls, old, items) ==
    IF kind = "dict"
    THEN [lists |-> (NewList(ls) :> items) @@ ls, ref |-> NewList(ls)]
    ELSE [lists |-> [ls EXCEPT ![old] = items], ref |-> old]

SerializedInto(kind, cache0, r, st) ==
    /\ cacheD' = r.cache
    /\ lists' = st.lists
    /\ wire' = [wire EXCEPT !.d = DictSet(r.res, "parts", st.ref),
                            !.fresh = (cache0 = <<>>)]
    /\ last' = [Idle EXCEPT !.op = "copy", !.t = "Order", !.dir = kind,
                            !.src = OrderAddr, !.out = r.res,
                            !.heap0 = heap, !.cache0 = cache0,
                            !.n = last.n + 1]

\* serialize_Order_Order_to_<kind>( source, dest, cache) with the
\* destination the caller holds; a source that is in the cache already is
\* answered from it and the destination stays as it is
SerializeInto(kind, fresh) ==
    /\ last.n < MaxOps
    /\ IF SQLA_cache_key(OrderAddr) \in DOMAIN CacheArg(fresh, cacheD)
       THEN /\ last' = [Idle EXCEPT !.op = "copy", !.t = "Order",
                                    !.dir = kind, !.src = OrderAddr,
                                    !.out = cacheD[SQLA_cache_key(OrderAddr)],
                                    !.heap0 = heap, !.cache0 = cacheD,
                                    !.n = last.n + 1]
            /\ UNCHANGED <<cacheD, wire, lists>>
       ELSE SerializedInto(kind, CacheArg(fresh, cacheD),
                serialize_to_dict(heap, "Order", OrderAddr, wire.d,
                                  CacheArg(fresh, cacheD)),
                relation_store(kind, lists, wire.d["parts"],
                    serialize_to_dict(heap, "Order", OrderAddr, wire.d,
                                      CacheArg(fresh, cacheD)).res["parts"]))
    /\ UNCHANGED <<heap, plans, cacheE, decl, runs>>

NextCopy == \E kind \in DestKinds, fresh \in BOOLEAN : SerializeInto(kind, fresh)

SpecCopy == InitCopy /\ [][NextCopy]_vars

(* ---------------------------------------------------------------------- *)
(* two runs side by side                                                   *)
(* ---------------------------------------------------------------------- *)
RunLen == 2        \* serializer calls of one run

RunIds == {1, 2}

\* The dicts of run i: new Operations marked with a token and references to
\* them, with the same tokens in both runs, and the stored Operation i
RunDicts(i) ==
    { d \in ClientOperations : Has(d, "__PYXID") \/ Has(d, "__PYX_REUSE") }
    \cup { ("operation_id" :> i) @@ ("name" :> 8) }

RunScripts(i) == [1..RunLen -> RunDicts(i)]

\* at: the calls of the run among the calls of both; start: the entities
\* when the run began
NewRun(script, h) == [script |-> script, pc |-> 1, cache |-> <<>>,
                      out |-> <<>>, at |-> <<>>, start |-> h]

\* two stored Operations, or an empty session
ParHeaps ==
    { <<>>,
      << Entity("Operation", 1, 7, NoObj, NoObj, <<>>, TRUE),
         Entity("Operation", 2, 7, NoObj, NoObj, <<>>, TRUE) >> }

InitPar ==
    /\ heap \in ParHeaps
    /\ plans = BuildAutogen("to_sqla")
    /\ cacheD = <<>>
    /\ cacheE = <<>>
    /\ wire = NoWire
    /\ last = Idle
    /\ decl = TestDecl
    /\ runs \in { <<NewRun(s1, heap), NewRun(s2, heap)>> :
                      s1 \in RunScripts(1), s2 \in RunScripts(2) }
    /\ lists = <<>>

\* one cache for all the runs
RunCache_shared(rs, i) == rs[1].cache

\* the cache dict that run i passes to its serializers
RunCache(rs, i) == rs[i].cache

Stepped(i, r) ==
    /\ Len(r.heap) <= MaxHeap
    /\ heap' = r.heap
    /\ runs' = [runs EXCEPT ![i].cache = r.cache,
                            ![i].out = Append(@, r.res),
                            ![i].pc = @ + 1,
                            ![i].at = Append(@, last.n + 1)]
    /\ last' = [Idle EXCEPT !.op = "to_sqla", !.t = "Operation",
                            !.dir = "to_sqla",
                            !.srcDict = runs[i].script[runs[i].pc],
                            !.res = r.res, !.err = r.err, !.n = last.n + 1]

\* run i calls serialize_Operation_dict_to_Operation( d, None, session,
\* cache) for the next dict of its script
RunStep(i) ==
    /\ runs[i].pc <= Len(runs[i].script)
    /\ Stepped(i, serialize_to_sqla(heap, "Operation",
                     runs[i].script[runs[i].pc], NoObj, RunCache(runs, i)))
    /\ UNCHANGED <<plans, cacheD, cacheE, wire, decl, lists>>

NextPar == \E i \in RunIds : RunStep(i)

SpecPar == InitPar /\ [][NextPar]_vars

(* ---------------------------------------------------------------------- *)
(* building the code of a type support                                     *)
(* ---------------------------------------------------------------------- *)
\* the key columns a mapped class may declare: none, one, two
DeclKeys == {<<>>, <<"id">>, <<"left_id", "right_id">>}

\* cache_base_name: the name the keys of a type start with
BaseNames == {"Order", "OrderPart", "Operation"}

\* gen_merge_relation_sqla, the part that runs when the code is generated:
\* the statement that puts a new member into the destination relation
gen_merge_relation_sqla_add(collection_class) ==
    IF collection_class = "list"
    THEN [code |-> ("add" :> "append"), err |-> ""]
    ELSE IF collection_class = "set"
    THEN [code |-> ("add" :> "add"), err |-> ""]
    ELSE [code |-> NoDict, err |-> "UnrecognizedCollectionType"]

\* SQLATypeSupport.relation_copy: the collection class it hands on
SQLA_relation_copy(d) ==
    gen_merge_relation_sqla_add(
        IF d.collection = "set" THEN "set" ELSE "list")

\* _make_cache_key_expression: the tuple of the base name and the readers
\* of the key fields
make_cache_key_expression(key_fields, cache_base_name) ==
    IF Len(key_fields) = 0
    THEN [code |-> NoDict, err |-> "AssertionError"]
    ELSE [code |-> ("key" :> (<<cache_base_name>> \o key_fields)), err |-> ""]

InitBuild ==
    /\ heap = <<>>
    /\ plans = <<>>
    /\ cacheD = <<>>
    /\ cacheE = <<>>
    /\ wire = NoWire
    /\ last = Idle
    /\ decl \in [keys : DeclKeys, collection : CollectionClasses]
    /\ runs = <<>>
    /\ lists = <<>>

Generated(op, t, g) ==
    /\ last' = [Idle EXCEPT !.op = op, !.t = t, !.dir = "to_sqla",
                            !.out = g.code, !.err = g.err, !.n = last.n + 1]
    /\ UNCHANGED <<heap, plans, cacheD, cacheE, wire, decl, runs, lists>>

\* dest_ts.relation_copy( serializer, ...) for the relation of the class
GenRelationCopy ==
    /\ last.n < MaxOps
    /\ Generated("relation_copy", "", SQLA_relation_copy(decl))

\* SQLADictTypeSupport.cache_key( serializer, ...) and cache_on_write: both
\* start with the key expression
GenCacheKey(base) ==
    /\ last.n < MaxOps
    /\ Generated("cache_key", base,
                 make_cache_key_expression(decl.keys, base))

NextBuild ==
    \/ GenRelationCopy
    \/ \E base \in BaseNames : GenCacheKey(base)

SpecBuild == InitBuild /\ [][NextBuild]_vars

(* ---------------------------------------------------------------------- *)
(* what a run was given and what it made                                   *)
(* ---------------------------------------------------------------------- *)
\* the last call went from dicts to entities and returned
Returned(t) == last.op = "to_sqla" /\ last.t = t /\ last.err = ""

\* the call started with an empty cache: a run of its own
OwnRun == last.cache0 = <<>>

IsShort(d) == Has(d, "__PYX_REUSE")
IsFull(t, d) == ~IsShort(d) /\ FieldNames(t) \subseteq DOMAIN d
KeyedDict(t, d) ==
    IsFull(t, d) /\ \A i \in DOMAIN KeyNames(t) : d[KeyNames(t)[i]] # None
UnkeyedDict(t, d) ==
    IsFull(t, d) /\ \A i \in DOMAIN KeyNames(t) : d[KeyNames(t)[i]] = None
DictKey(t, d) == [i \in DOMAIN KeyNames(t) |-> d[KeyNames(t)[i]]]

\* the elements of the source relation that carry an operation
WithOperation(d) ==
    {i \in DOMAIN d["parts"] : Has(d["parts"][i], "operation")}
SourceOperationKeys(d) ==
    {SQLADict_cache_key("Operation", d["parts"][i]["operation"]).key :
        i \in WithOperation(d)}

\* the Operation instances the parts of o refer to
DestOperations(h, o) ==
    {h[h[o].parts[i]].operation : i \in DOMAIN h[o].parts} \ {NoObj}

\* the instances of type t that the last call added to the session
Created(t) == {a \in DOMAIN heap : a > Len(last.heap0) /\ heap[a].type = t}

OperationStep == "operation" \in plans[<<"OrderPart", "to_sqla">>].steps

(* ---------------------------------------------------------------------- *)
(* C1                                                                      *)
(* ---------------------------------------------------------------------- *)
\* C1: in one run (a top-level call into a new Order, with a cache of its
\* own) whose source reaches one and the same Operation through several
\* parts, all the parts of the result refer to one Operation instance, and
\* the run has made no second instance for it.
C1_OneDestinationPerSource ==
    (/\ Returned("Order") /\ OwnRun /\ last.dest = NoObj
     /\ Has(last.srcDict, "parts") /\ OperationStep
     /\ Cardinality(WithOperation(last.srcDict)) >= 2
     /\ Cardinality(SourceOperationKeys(last.srcDict)) = 1)
    => /\ Cardinality(DestOperations(heap, last.res)) = 1
       /\ Cardinality(Created("Operation")) <= 1

(* ---------------------------------------------------------------------- *)
(* C2, C3                                                                  *)
(* ---------------------------------------------------------------------- *)
\* the call reconciled the parts of a dict into those of an existing Order
Reconciled ==
    /\ Returned("Order") /\ last.dest # NoObj
    /\ Has(last.srcDict, "parts")
    /\ SQLADict_cache_key("Order", last.srcDict).key \notin DOMAIN last.cache0

SourcePartKeys ==
    {DictKey("OrderPart", last.srcDict["parts"][i]) :
        i \in DOMAIN last.srcDict["parts"]}

AllKeyed ==
    /\ \A i \in DOMAIN last.srcDict["parts"] :
          KeyedDict("OrderPart", last.srcDict["parts"][i])
    /\ \A a \in Range(last.heap0[last.dest].parts) :
          \A i \in DOMAIN last.heap0[a].pk : last.heap0[a].pk[i] # None

\* C2: reconciling keyed source elements against the keyed elements of an
\* existing destination collection leaves exactly the source's keys in it:
\* an element whose key is in the source stays the same object, one whose
\* key is not in the source is no member any more, and every other member is
\* new; whatever the cache held when the call started.
C2_ReconcileKeyed ==
    (Reconciled /\ AllKeyed)
    => LET old == Range(last.heap0[last.dest].parts)
           new == Range(heap[last.dest].parts)
       IN  /\ {heap[a].pk : a \in new} = SourcePartKeys
           /\ \A a \in old : (a \in new) <=> (last.heap0[a].pk \in SourcePartKeys)
           /\ \A a \in new \ old : a > Len(last.heap0)

\* C3: reconciling an empty source collection against a destination
\* collection that held elements leaves the destination collection empty.
C3_EmptySourceEmpties ==
    (/\ Reconciled
     /\ last.srcDict["parts"] = <<>>
     /\ last.heap0[last.dest].parts # <<>>)
    => heap[last.dest].parts = <<>>

(* ---------------------------------------------------------------------- *)
(* C4, C5                                                                  *)
(* ---------------------------------------------------------------------- *)
\* the last call made the dict of an Order, with a cache of its own, by a
\* plan that follows the parts to their operation
SerializedOrder ==
    /\ last.op = "to_dict" /\ last.t = "Order" /\ OwnRun
    /\ "parts" \in plans[<<"Order", "to_dict">>].steps
    /\ "operation" \in plans[<<"OrderPart", "to_dict">>].steps

\* the parts of the source Order that share its first part's Operation, the
\* first part aside
LaterSharers ==
    LET ps == last.heap0[last.src].parts
    IN  {i \in DOMAIN ps : i > 1 /\ last.heap0[ps[i]].operation # NoObj
            /\ last.heap0[ps[i]].operation = last.heap0[ps[1]].operation}

\* the short dict of the claim: the key fields and nothing else
KeyOnlyDict(t, pk) == [k \in Range(KeyNames(t)) |-> pk[KeyIndex(t, k)]]

\* C4: when parts of an Order share a keyed Operation, the dict of the first
\* of them holds the Operation with all its fields, and the dict of every
\* later one holds it as a dict of its key field(s) only.
C4_ShortFormIsKeyFields ==
    (/\ SerializedOrder
     /\ LaterSharers # {}
     /\ any(last.heap0[last.heap0[last.heap0[last.src].parts[1]].operation].pk))
    => LET op == last.heap0[last.heap0[last.src].parts[1]].operation
       IN  /\ last.out["parts"][1]["operation"] =
                 (ScalarName("Operation") :> last.heap0[op].val) @@
                 KeyOnlyDict("Operation", last.heap0[op].pk)
           /\ \A i \in LaterSharers :
                 last.out["parts"][i]["operation"] =
                     KeyOnlyDict("Operation", last.heap0[op].pk)

\* C5: a dict graph that holds the full form of an Operation under its first
\* part and short references to it under later parts comes back, in one run,
\* as exactly one Operation instance that every one of these parts refers to.
C5_ShortReferenceShares ==
    (/\ Returned("Order") /\ OwnRun /\ OperationStep
     /\ Has(last.srcDict, "parts")
     /\ Cardinality(WithOperation(last.srcDict)) >= 2
     /\ WithOperation(last.srcDict) = DOMAIN last.srcDict["parts"]
     /\ \A i \in WithOperation(last.srcDict) :
           IF i = 1
           THEN IsFull("Operation", last.srcDict["parts"][i]["operation"])
           ELSE /\ IsShort(last.srcDict["parts"][i]["operation"])
                /\ SQLADict_cache_key("Operation",
                       last.srcDict["parts"][i]["operation"]).key
                   = SQLADict_cache_key("Operation",
                       last.srcDict["parts"][1]["operation"]).key)
    => \E o \in DOMAIN heap :
          /\ heap[o].type = "Operation"
          /\ \A i \in DOMAIN heap[last.res].parts :
                heap[heap[last.res].parts[i]].operation = o

(* ---------------------------------------------------------------------- *)
(* C6, C7                                                                  *)
(* ---------------------------------------------------------------------- *)
\* how deep an entity graph is compared: Order, part, operation
ViewDepth == 3

NoView == [pk |-> <<>>, val |-> None, single |-> <<>>, parts |-> <<>>]

RECURSIVE View(_, _, _, _)
\* What the plans of direction dir can see of entity a: its key, its scalar
\* field, and along the relations of the plan the same of the entities it
\* refers to.
View(h, dir, a, d) ==
    IF a = NoObj THEN NoView
    ELSE [pk     |-> h[a].pk,
          val    |-> h[a].val,
          single |-> IF d = 0 THEN <<>>
                     ELSE [i \in DOMAIN SingleSteps(h[a].type, dir) |->
                             View(h, dir,
                                  h[a][SingleSteps(h[a].type, dir)[i]], d - 1)],
          parts  |-> IF d = 0 \/ MultiSteps(h[a].type, dir) = <<>> THEN <<>>
                     ELSE [i \in DOMAIN h[a].parts |->
                             View(h, dir, h[a].parts[i], d - 1)]]

\* the same, with the members of the collection as a set
ByKey(v) == [v EXCEPT !.parts = Range(@)]

\* the dict on the wire is the one a run of its own makes of wire.src as it
\* was when the last call began, and the last call brought it back, again
\* with a cache of its own
RoundTrip ==
    /\ last.op = "to_sqla" /\ OwnRun
    /\ wire.fresh /\ ~wire.edited
    /\ last.t = wire.t /\ last.srcDict = wire.d
    /\ serialize_to_dict(last.heap0, wire.t, wire.src, NoDict, <<>>).res = wire.d

Repeats ==
    /\ last.n >= 1 /\ last'.n = last.n + 1
    /\ last'.op = last.op /\ last'.t = last.t
    /\ last'.src = last.src /\ last'.srcDict = last.srcDict
    /\ last'.dest = last.dest
    /\ last.cache0 = <<>> /\ last'.cache0 = <<>>
    /\ last.err = ""

\* C7: a call that repeats the call before it on the unchanged source, each
\* with an empty cache, returns an equal result: the same dict, or entities
\* with equal fields and equal relations.
C7_Idempotent ==
    [][Repeats =>
         /\ last'.err = ""
         /\ last'.out = last.out
         /\ View(heap', "to_sqla", last'.res, ViewDepth)
              = View(heap, "to_sqla", last.res, ViewDepth)
      ]_vars

(* ---------------------------------------------------------------------- *)
(* C8                                                                      *)
(* ---------------------------------------------------------------------- *)
\* which source instance a dict stands for: the one its token names, or,
\* for a dict without a token, itself
SourceId(d, i) ==
    IF Has(d, "__PYXID") THEN <<"token", d["__PYXID"]>>
    ELSE IF IsShort(d) THEN <<"token", d["__PYX_REUSE"].v[1]>>
    ELSE <<"dict", i>>

UnsetKey(t, d) ==
    \A i \in DOMAIN KeyNames(t) :
        Has(d, KeyNames(t)[i]) /\ d[KeyNames(t)[i]] = None

\* C8: in one run, the parts of the source whose key is unset come back as
\* one member of the destination relation for each distinct source
\* instance, and the appearances of one Operation with an unset key all come
\* back as the instance made for its first appearance.
C8_UnkeyedInstances ==
    (/\ Returned("Order") /\ OwnRun /\ last.dest = NoObj
     /\ Has(last.srcDict, "parts")
     /\ \A i \in DOMAIN last.srcDict["parts"] :
           UnsetKey("OrderPart", last.srcDict["parts"][i]))
    => /\ Cardinality(Range(heap[last.res].parts))
            = Cardinality({SourceId(last.srcDict["parts"][i], i) :
                              i \in DOMAIN last.srcDict["parts"]})
       /\ (/\ OperationStep
           /\ \A i \in WithOperation(last.srcDict) :
                 UnsetKey("Operation", last.srcDict["parts"][i]["operation"]))
          => Cardinality(DestOperations(heap, last.res))
               = Cardinality({SourceId(last.srcDict["parts"][i]["operation"], i) :
                                 i \in WithOperation(last.srcDict)})

(* ---------------------------------------------------------------------- *)
(* C9                                                                      *)
(* ---------------------------------------------------------------------- *)
ByToken(d) == Has(d, "__PYX_REUSE") \/ Has(d, "__PYXID")

\* C9: of two dicts of one type, one identified by a reuse token and one by
\* the values of its key fields, the cache keys differ.
C9_TokenKeyDistinct ==
    (/\ last.op = "to_sqla" /\ wire.t = last.t
     /\ ByToken(last.srcDict) # ByToken(wire.d))
    => SQLADict_cache_key(last.t, last.srcDict).key
         # SQLADict_cache_key(wire.t, wire.d).key

(* ---------------------------------------------------------------------- *)
(* C10                                                                     *)
(* ---------------------------------------------------------------------- *)
RECURSIVE TypesWithin(_, _, _)
\* the types a walk of t can come to when it leaves out the relations skip
\* of t
TypesWithin(S, t, skip) ==
    LET N == S \cup {Target(u, r) : <<u, r>> \in
                 {<<u, r>> \in S \X {"parts", "operation", "order"} :
                     r \in Relations(u) /\ (u = t => r \notin skip)}}
    IN  IF N = S THEN S ELSE TypesWithin(N, t, skip)

RECURSIVE NoSkippedEntry(_, _)
\* no dict of the output has an entry for a relation its plan skips
NoSkippedEntry(t, d) ==
    /\ DOMAIN d \cap plans[<<t, "to_dict">>].skip = {}
    /\ \A r \in DOMAIN d \cap Range(SingleRels(t)) :
          NoSkippedEntry(Target(t, r), d[r])
    /\ \A r \in DOMAIN d \cap Range(MultiRels(t)) :
          \A i \in DOMAIN d[r] : NoSkippedEntry(Target(t, r), d[r][i])

\* an Order went to a dict by plans that skip both relations of its parts,
\* and there is no plan for Operation
C10_Witness ==
    /\ last.op = "to_dict" /\ last.t = "Order"
    /\ <<"OrderPart", "to_dict">> \in DOMAIN plans
    /\ plans[<<"OrderPart", "to_dict">>].skip = {"order", "operation"}
    /\ Has(last.out, "parts")
    /\ <<"Operation", "to_dict">> \notin DOMAIN plans
    /\ Len(last.out["parts"]) = 2
    /\ last.heap0[last.heap0[last.src].parts[1]].order = last.src

\* C10: a walk adds plans only for types it comes to without the skipped
\* relations, no plan has a step for a relation it skips, and no dict made
\* by the plans has an entry for one.
C10_SkipOmits ==
    [][/\ (last'.op = "walk" /\ last'.err = ""
              /\ <<last'.t, last'.dir>> \notin DOMAIN plans)
          => DOMAIN plans' \ DOMAIN plans \subseteq
               TypesWithin({last'.t}, last'.t,
                           plans'[<<last'.t, last'.dir>>].skip)
                 \X {last'.dir}
       /\ \A k \in DOMAIN plans' : plans'[k].steps \cap plans'[k].skip = {}
       /\ last'.op = "to_dict" => NoSkippedEntry(last'.t, last'.out)
      ]_vars

(* ---------------------------------------------------------------------- *)
(* C11, C12, C13                                                           *)
(* ---------------------------------------------------------------------- *)
\* the field control map of the last walk names a relation its type lacks
UnknownControl(l) ==
    l.op = "walk" /\ ~((l.fc.skip \cup l.fc.explicit) \subseteq Relations(l.t))

\* a walk failed on a registry that holds plans
C11_Witness ==
    /\ UnknownControl(last) /\ last.err = "UnknownFieldControl"
    /\ <<"Order", "to_dict">> \in DOMAIN plans

\* C11: a walk whose field control map names a relation the type does not
\* have fails with Unknown Field Control, and leaves the registry, the
\* entities, the caches and the dict on the wire as they were.
C11_UnknownFieldControl ==
    [][UnknownControl(last')
         => /\ last'.err = "UnknownFieldControl"
            /\ UNCHANGED <<plans, heap, cacheD, cacheE, wire>>
      ]_vars

\* a walk came back to a planned type with another field control map
C12_Witness ==
    /\ last.op = "walk" /\ last.err = ""
    /\ plans[<<last.t, last.dir>>].skip # last.fc.skip
    /\ <<last.t, "to_dict">> \in DOMAIN plans
    /\ <<last.t, "to_sqla">> \in DOMAIN plans

\* C12: a walk leaves every plan of the registry as it is: the registry
\* keeps one plan for a type and a pair of adapters, and a walk that comes
\* back to a planned type gets the plan that is there.
C12_OnePlanPerTriple ==
    [][last'.op = "walk"
         => \A k \in DOMAIN plans :
               k \in DOMAIN plans' /\ plans'[k] = plans[k]
      ]_vars

\* Order was walked with nothing skipped: Order and OrderPart refer to each
\* other
C13_Witness ==
    /\ last.op = "walk" /\ last.err = "" /\ last.t = "Order"
    /\ last.fc = EmptyFC
    /\ plans[<<"Order", last.dir>>].skip = {}
    /\ <<"OrderPart", last.dir>> \in DOMAIN plans
    /\ plans[<<"OrderPart", last.dir>>].skip = {}

\* C13: a walk returns, also over the cycle Order.parts, OrderPart.order:
\* every plan of the registry is complete, has a step for each relation of
\* its type that it does not skip, and each step has the plan of its target
\* in the registry.
C13_WalkClosesCycles ==
    (last.op = "walk" /\ last.err = "")
    => \A k \in DOMAIN plans :
          /\ plans[k].done
          /\ plans[k].steps = Relations(k[1]) \ plans[k].skip
          /\ \A r \in plans[k].steps : <<Target(k[1], r), k[2]>> \in DOMAIN plans

(* ---------------------------------------------------------------------- *)
(* C14                                                                     *)
(* ---------------------------------------------------------------------- *)
\* the last call was given a dict whose cache key was in the cache
HitToSqla ==
    /\ last.op = "to_sqla"
    /\ SQLADict_cache_key(last.t, last.srcDict).err = ""
    /\ SQLADict_cache_key(last.t, last.srcDict).key \in DOMAIN last.cache0

\* the last call was given an entity whose cache key was in the cache
HitToDict ==
    last.op = "to_dict" /\ SQLA_cache_key(last.src) \in DOMAIN last.cache0

\* the dict of a whole Order was brought back by a call whose cache had it
C14_Witness ==
    /\ HitToSqla /\ last.t = "Order"
    /\ Has(last.srcDict, "parts") /\ Len(last.srcDict["parts"]) >= 2
    /\ IsFull("Order", last.srcDict)

\* C14: a call on a source whose cache key is in the cache returns what the
\* cache holds for it and writes nothing: no entity and no cache entry
\* changes; within one run a later occurrence of an entity is the value the
\* cache got at its first occurrence.
C14_CacheHitWritesNothing ==
    /\ HitToSqla
         => /\ last.err = ""
            /\ last.res = last.cache0[SQLADict_cache_key(last.t, last.srcDict).key]
            /\ heap = last.heap0
            /\ cacheE = last.cache0
    /\ HitToDict
         => /\ last.out = last.cache0[SQLA_cache_key(last.src)]
            /\ cacheD = last.cache0
    /\ (SerializedOrder /\ ~HitToDict)
         => \A i \in LaterSharers :
               (\A j \in 1..(i - 1) : last.heap0[last.src].parts[j]
                                          # last.heap0[last.src].parts[i])
               => last.out["parts"][i]["operation"] =
                   cacheD[SQLA_cache_key(
                       last.heap0[last.heap0[last.src].parts[i]].operation)]

(* ---------------------------------------------------------------------- *)
(* C15                                                                     *)
(* ---------------------------------------------------------------------- *)
\* the last call made the dict of an Order, with a cache of its own, by
\* plans that follow the parts and, from each part, the order back
CyclicRun ==
    /\ last.op = "to_dict" /\ last.t = "Order" /\ OwnRun
    /\ "parts" \in plans[<<"Order", "to_dict">>].steps
    /\ "order" \in plans[<<"OrderPart", "to_dict">>].steps

\* the parts of the source that refer back to it, each at its first place
\* in the collection
BackReferring ==
    LET ps == last.heap0[last.src].parts
    IN  {i \in DOMAIN ps :
            /\ last.heap0[ps[i]].order = last.src
            /\ \A j \in 1..(i - 1) : ps[j] # ps[i]}

SourceParts ==
    IF last.t = "Order" /\ Has(last.srcDict, "parts")
    THEN Range(last.srcDict["parts"])
    ELSE IF last.t = "OrderPart" THEN {last.srcDict} ELSE {}

SourceDicts ==
    ({last.t} \X {last.srcDict})
    \cup ({"OrderPart"} \X SourceParts)
    \cup ({"Operation"} \X {p["operation"] :
                                p \in {q \in SourceParts : Has(q, "operation")}})

\* how often a serializer had handed instance a to session.merge
Finals(h, a) == IF a \in DOMAIN h THEN h[a].final ELSE <<>>

\* the instance held the columns of dict d and had every relation step of
\* its plan behind it
Populated(t, d, snap) ==
    /\ snap.pk = DictKey(t, d)
    /\ snap.val = d[ScalarName(t)]
    /\ \A r \in plans[<<t, "to_sqla">>].steps :
          (r \in Range(MultiRels(t)) \/ Has(d, r)) => r \in snap.has

\* the instances the last call produced: the cache got them in this call
Produced == {cacheE[k] : k \in DOMAIN cacheE \ DOMAIN last.cache0}

\* an Order with two parts and their operation came back as new instances
C16_Witness ==
    /\ Returned("Order") /\ OwnRun /\ last.dest = NoObj /\ OperationStep
    /\ Has(last.srcDict, "parts") /\ Len(last.srcDict["parts"]) >= 2
    /\ Cardinality(Produced) >= 4

\* C16: a call that returns has handed each instance it produced to
\* session.merge once, the instance then holding the columns of its source
\* dict and having its relation steps behind it; it has handed over no
\* other instance, and none when it was answered from the cache.
C16_FinalizeOnce ==
    (last.op = "to_sqla" /\ last.err = "")
    => /\ \A k \in DOMAIN cacheE \ DOMAIN last.cache0 :
             /\ Len(heap[cacheE[k]].final)
                  = Len(Finals(last.heap0, cacheE[k])) + 1
             /\ \E td \in SourceDicts :
                   /\ IsFull(td[1], td[2])
                   /\ SQLADict_cache_key(td[1], td[2]).key = k
                   /\ Populated(td[1], td[2],
                         heap[cacheE[k]].final[Len(heap[cacheE[k]].final)])
       /\ \A a \in DOMAIN heap \ Produced :
             heap[a].final = Finals(last.heap0, a)

(* ---------------------------------------------------------------------- *)
(* C17, C18, C19                                                           *)
(* ---------------------------------------------------------------------- *)
\* the full form of the source of the last call: its dict in a run of its
\* own
FullForm == serialize_to_dict(last.heap0, last.t, last.src, NoDict, <<>>).res

\* the last call emitted the short reference of an entity with a composite
\* key
C17_Witness ==
    /\ HitToDict /\ last.t = "Link" /\ IsShort(last.out)
    /\ last.heap0[last.src].pk = <<1, 0>>

\* C17: the short reference emitted for a later occurrence of an entity
\* and the full form of that entity have one cache key, which cache_key
\* computes without error from both.
C17_ShortKeyIsFullKey ==
    (HitToDict /\ last.src = 1)
    => /\ SQLADict_cache_key(last.t, last.out).err = ""
       /\ SQLADict_cache_key(last.t, last.out)
            = SQLADict_cache_key(last.t, FullForm)

\* the last call wrote the full form of its source
WroteFull == last.op = "to_dict" /\ ~HitToDict /\ last.src = 1

\* C18: the dict of an entity gets the __PYXID surrogate when no key field
\* of the entity holds a value; when every key field holds a value, 0
\* included, it gets none and the cache keeps the key values as the reuse
\* form.
C18_SurrogateIffUnkeyed ==
    WroteFull
    => LET pk == last.heap0[last.src].pk
       IN  /\ (\A i \in DOMAIN pk : pk[i] = None) => Has(last.out, "__PYXID")
           /\ (\A i \in DOMAIN pk : pk[i] # None)
                => /\ ~Has(last.out, "__PYXID")
                   /\ cacheD[SQLA_cache_key(last.src)]
                        = ("__PYX_REUSE" :> [kind |-> "tuple", v |-> pk])

\* the token of a dict as the tuple it was before the way through JSON
AsTuple(d) ==
    [k \in DOMAIN d |->
        IF k = "__PYX_REUSE" /\ d[k].kind = "list"
        THEN [kind |-> "tuple", v |-> d[k].v]
        ELSE d[k]]

\* C19: a dict whose reuse token is a list gets the cache key of the dict
\* with the same token as a tuple, and the call raises no TypeError.
C19_ListTokenKey ==
    (/\ last.op = "to_sqla" /\ IsShort(last.srcDict)
     /\ last.srcDict["__PYX_REUSE"].kind = "list")
    => /\ SQLADict_cache_key(last.t, last.srcDict)
            = SQLADict_cache_key(last.t, AsTuple(last.srcDict))
       /\ last.err # "TypeError"

(* ---------------------------------------------------------------------- *)
(* C20                                                                     *)
(* ---------------------------------------------------------------------- *)
\* the instance this run made for the object the token of d designates
MadeFor(t, d, cache) == cache_get(cache, SQLADict_cache_key(t, d).key)

\* C20: peek gives the instance the cache of this run holds under the cache
\* key of the dict's reuse token, and None when the dict has no token or no
\* instance was made for the token yet.
C20_PeekFindsInstance ==
    last.op = "peek"
    => IF Has(last.srcDict, "__PYX_REUSE")
       THEN last.err = ""
            /\ last.res = MadeFor(last.t, last.srcDict, last.cache0)
       ELSE last.res = NoObj

(* ---------------------------------------------------------------------- *)
(* C21, C22                                                                *)
(* ---------------------------------------------------------------------- *)
\* the collection class is list or set, or the default, which is a list
KindKnown(d) == d.collection \in {"None", "list", "set"}

\* C21: when the collection class of the relation is neither a list nor a
\* set, generating the code that merges the relation fails, and no code is
\* emitted that appends to the relation as to a list.
C21_UnresolvableKindFails ==
    (last.op = "relation_copy" /\ ~KindKnown(decl))
    => last.err # "" /\ last.out = NoDict

\* C22: for a class without key columns, generating the cache key code
\* raises nothing.
C22_EmptyKeySetBuilds ==
    (last.op = "cache_key" /\ decl.keys = <<>>) => last.err = ""

(* ---------------------------------------------------------------------- *)
(* C23                                                                     *)
(* ---------------------------------------------------------------------- *)
\* the last call copied the relation: its source was not in the cache
Copied(l) == l.op = "copy" /\ SQLA_cache_key(l.src) \notin DOMAIN l.cache0

\* the dict of part a in a run of its own
PartAlone(h, a) == serialize_to_dict(h, "OrderPart", a, NoDict, <<>>).res

\* entry i of the list stands for source element i
EntryFor(h, items, src, i) ==
    SQLADict_cache_key("OrderPart", items[i])
      = SQLADict_cache_key("OrderPart", PartAlone(h, src[i]))

\* a dict destination got a list of two parts while the list it had before,
\* with three other parts, is still there
C23_Witness ==
    /\ Copied(last) /\ last.dir = "dict"
    /\ Len(lists[1]) = 3
    /\ wire.d["parts"] # 1
    /\ Len(lists[wire.d["parts"]]) = 2

\* C23: a copy of the relation leaves in the destination one entry per
\* source element, in the order of the source, whatever the destination
\* held before; a plain object keeps its list object, a dict gets a new
\* list and the list it had stays as it was.
C23_CopyReplacesRelation ==
    [][Copied(last')
         => /\ Len(lists'[wire'.d["parts"]]) = Len(heap[last'.src].parts)
            /\ \A i \in DOMAIN heap[last'.src].parts :
                  EntryFor(heap, lists'[wire'.d["parts"]],
                           heap[last'.src].parts, i)
            /\ last'.dir = "object" => wire'.d["parts"] = wire.d["parts"]
            /\ last'.dir = "dict"
                 => /\ wire'.d["parts"] \notin DOMAIN lists
                    /\ lists'[wire.d["parts"]] = lists[wire.d["parts"]]
      ]_vars

(* ---------------------------------------------------------------------- *)
(* C24                                                                     *)
(* ---------------------------------------------------------------------- *)
RECURSIVE RunAll(_, _, _, _)
RECURSIVE RunNext(_, _, _)
\* a run from its first call to its last, with a cache of its own
RunAll(h, todo, cache, out) ==
    IF todo = <<>> THEN [heap |-> h, cache |-> cache, out |-> out]
    ELSE RunNext(Tail(todo), out,
             serialize_to_sqla(h, "Operation", Head(todo), NoObj, cache))
RunNext(todo, out, r) == RunAll(r.heap, todo, r.cache, Append(out, r.res))

\* What a run made, whatever the addresses: what each instance it returned
\* holds, which of them are one instance, and which the cache refers to.
Made(h, out, cache) ==
    [views |-> [k \in DOMAIN out |-> View(h, "to_sqla", out[k], ViewDepth)],
     same  |-> {<<k, l>> \in (DOMAIN out) \X (DOMAIN out) : out[k] = out[l]},
     keys  |-> [c \in DOMAIN cache |-> View(h, "to_sqla", cache[c], ViewDepth)],
     held  |-> {<<c, k>> \in (DOMAIN cache) \X (DOMAIN out) : cache[c] = out[k]}]

Ended == \A i \in RunIds : runs[i].pc > Len(runs[i].script)

\* what run a and then run b made, seen when both have ended
MadeBoth(a, b) ==
    <<Made(b.heap, a.out, a.cache), Made(b.heap, b.out, b.cache)>>

\* the run of script si from h, and after its end the run of script sj
OneAfterTheOther(h, si, sj) ==
    MadeBoth(RunAll(h, si, <<>>, <<>>),
             RunAll(RunAll(h, si, <<>>, <<>>).heap, sj, <<>>, <<>>))

\* the calls of the two runs alternated, both made an Operation for the
\* token 1, and each has its own
C24_Witness ==
    /\ Ended
    /\ runs[1].at = <<1, 3>> /\ runs[2].at = <<2, 4>>
    /\ \A i \in RunIds : Has(runs[i].script[1], "__PYXID")
                           /\ runs[i].script[1]["__PYXID"] = 1
                           /\ runs[i].out[1] # NoObj
    /\ runs[1].out[1] # runs[2].out[1]
    /\ runs[2].script[2] = ("operation_id" :> 2) @@ ("name" :> 8)

\* C24: when two runs with a cache each and with instances of their own
\* have ended, each has made what it makes when the runs go one after the
\* other, in either order: the same instances with the same contents and
\* the same cache, however their calls alternated.
C24_InterleavingIsSequential ==
    Ended
    => /\ <<Made(heap, runs[1].out, runs[1].cache),
            Made(heap, runs[2].out, runs[2].cache)>>
            = OneAfterTheOther(runs[1].start, runs[1].script, runs[2].script)
       /\ <<Made(heap, runs[2].out, runs[2].cache),
            Made(heap, runs[1].out, runs[1].cache)>>
            = OneAfterTheOther(runs[1].start, runs[2].script, runs[1].script)

(* ---------------------------------------------------------------------- *)
(* C25, C26, C27                                                           *)
(* ---------------------------------------------------------------------- *)
\* the last call reconciled the parts of its source dict into the Order it
\* returned
ReconciledParts ==
    /\ Returned("Order") /\ Has(last.srcDict, "parts")
    /\ "parts" \in plans[<<"Order", "to_sqla">>].steps
    /\ SQLADict_cache_key("Order", last.srcDict).key \notin DOMAIN last.cache0

PartKey(i) == SQLADict_cache_key("OrderPart", last.srcDict["parts"][i]).key

\* a and b hold the same columns: session.merge may have handed back
\* another instance with the state of the one it was given
SameState(h, a, b) == h[a].type = h[b].type /\ h[a].pk = h[b].pk
                      /\ h[a].val = h[b].val

\* C25: after a relation was reconciled, every source element has its
\* destination instance among the members of the destination collection,
\* also when that instance came from the cache.
C25_CounterpartIsMember ==
    ReconciledParts
    => \A i \in DOMAIN last.srcDict["parts"] :
          /\ PartKey(i) \in DOMAIN cacheE
          /\ \E a \in Range(heap[last.res].parts) :
                SameState(heap, a, cacheE[PartKey(i)])

\* C26: after a relation was reconciled, every member of the destination
\* collection is the destination instance of some source element.
C26_NoStaleMember ==
    ReconciledParts
    => \A a \in Range(heap[last.res].parts) :
          \E i \in DOMAIN last.srcDict["parts"] :
             /\ PartKey(i) \in DOMAIN cacheE
             /\ SameState(heap, a, cacheE[PartKey(i)])

\* C27: after a relation was reconciled, no instance is a member of the
\* destination collection twice.
C27_NoMemberTwice ==
    ReconciledParts
    => \A i, j \in DOMAIN heap[last.res].parts :
          heap[last.res].parts[i] = heap[last.res].parts[j] => i = j

(* ---------------------------------------------------------------------- *)
(* C28                                                                     *)
(* ---------------------------------------------------------------------- *)
\* C28: when a call into entities returns, the cache holds for the key of
\* its source the instance the call returned.
C28_CacheHoldsReturned ==
    (last.op = "to_sqla" /\ last.err = "")
    => /\ SQLADict_cache_key(last.t, last.srcDict).key \in DOMAIN cacheE
       /\ cacheE[SQLADict_cache_key(last.t, last.srcDict).key] = last.res

(* ---------------------------------------------------------------------- *)
(* C29                                                                     *)
(* ---------------------------------------------------------------------- *)
\* the cache of the run holds an Operation and an OrderPart that came with
\* one and the same token
C29_Witness ==
    /\ [tag |-> "Operation", v |-> <<1>>] \in DOMAIN cacheE
    /\ [tag |-> "OrderPart", v |-> <<1>>] \in DOMAIN cacheE
    /\ last.op = "to_sqla" /\ last.err = ""
    /\ Has(last.srcDict, "__PYXID") /\ last.srcDict["__PYXID"] = 1
    /\ heap[last.res].type = last.t

\* C29: the cache key of a dict of one type differs from the cache key of
\* a dict of another type, whatever tokens or key values they carry; the
\* cache of a run holds under a key of a type an instance of that type, and
\* a call returns an instance of the type of its plan.
C29_KeysTellTypesApart ==
    /\ (last.op = "to_sqla" /\ wire.t # "" /\ wire.t # last.t
        /\ SQLADict_cache_key(last.t, last.srcDict).err = ""
        /\ SQLADict_cache_key(wire.t, wire.d).err = "")
       => SQLADict_cache_key(last.t, last.srcDict).key
            # SQLADict_cache_key(wire.t, wire.d).key
    /\ \A k \in DOMAIN cacheE : heap[cacheE[k]].type = k.tag
    /\ (last.op = "to_sqla" /\ last.err = "") => heap[last.res].type = last.t

(* ---------------------------------------------------------------------- *)
(* C30                                                                     *)
(* ---------------------------------------------------------------------- *)
\* the last call was given a short reference that its cache did not hold
ShortMissed ==
    /\ last.op = "to_sqla" /\ IsShort(last.srcDict)
    /\ SQLADict_cache_key(last.t, last.srcDict).err = ""
    /\ SQLADict_cache_key(last.t, last.srcDict).key \notin DOMAIN last.cache0

\* the short reference of a stored entity came to a run with a cache of
\* its own, and the call failed
C30_Witness ==
    /\ ShortMissed /\ OwnRun
    /\ last.srcDict["__PYX_REUSE"].kind = "tuple"
    /\ last.err = "KeyError"

\* C30: a call with a short reference that the cache does not hold fails
\* on the fields the reference lacks, and returns no instance.
C30_ShortMissFails ==
    ShortMissed => last.err = "KeyError" /\ last.res = NoObj

====
